---- MODULE Spec2Model ----
(***************************************************************************)
(* Model of the reactive state engine of src/state/reactive-state.ts:      *)
(* cells (createReactiveState), derived states (createDerivedState,        *)
(* derive), computed values, effects and batch.  JavaScript is single      *)
(* threaded and every operation of the engine is synchronous, so each      *)
(* public call is one atomic action; the work a call does internally       *)
(* (subscriber callbacks, update() of derived states, nested compute())    *)
(* is threaded through a record `st` by the operators below.               *)
(*                                                                         *)
(* Spec is the engine used by a caller whose functions and callbacks       *)
(* return normally.  FaultSpec is the engine after set-up code that hands  *)
(* it functions that throw, write, read themselves or read conditionally,  *)
(* memoized selectors and effects with a cleanup function.                 *)
(*                                                                         *)
(* MachineSpec is a state machine of src/state/state-machine.ts and        *)
(* BackendSpec a backend binding of src/cross-stack/reactive-backend.ts,   *)
(* whose asynchronous functions are split at their awaits.                 *)
(***************************************************************************)
EXTENDS Integers, Sequences, FiniteSets, Bags, TLC

\* ---------------------------------------------------------------- bounds
MaxNodes == 3        \* the caller creates objects while fewer than this many exist
MaxCells == 2        \* cells the caller creates with createReactiveState
MaxVal == 2          \* cell values written by the caller are 1..MaxVal
MaxGraph == 5        \* entries of the dependencyGraph map
MaxSubs == 1         \* user callbacks subscribed at any one time
MaxBatch == 2        \* length of the array handed to batch()
MaxStack == 3        \* nested compute() calls the call stack has room for
MaxObservers == 2    \* callbacks on a cell when a throwing or reading one is added

\* null (the value of the dummy cells) and undefined (currentValue of a derived
\* state before its first compute)
Null == -1
Undefined == -2

Values == 1..MaxVal
CallbackIds == 1..MaxSubs

\* ------------------------------------------------- caller-supplied functions
\* The functions a caller hands to derive / createDerivedState / createComputed /
\* createReactiveEffect.  A function is [name, reads]: `name` is what it does
\* with its argument, `reads` the other reactive states whose value() it calls.
FnNames == {"inc", "double"}

FnBase(name, x) ==
    CASE name = "inc"     -> x + 1
      [] name = "double"  -> x * 2
      [] name = "half"    -> (x + 1) \div 2
      [] name = "times10" -> x * 10
      [] name = "thunk"   -> 0
      [] name = "thunkCleanup" -> 0

\* ---------------------------------------------------------------- state
VARIABLES
    nodes,               \* heap: every ReactiveState object created so far
    dependencyGraph,     \* the module-level Map computation -> Set of states
    currentComputation,  \* the module-level active-computation slot
    written,             \* history: per cell, the resolved argument of the last setValue
    last,                \* history: the last call, what it returned and what it ran
    machine,             \* the state machine made by createStateMachine, if any
    binding              \* the backend binding made by createReactiveBackendBinding, if any

vars == <<nodes, dependencyGraph, currentComputation, written, last, machine, binding>>

\* no state machine and no backend binding have been created
NoMachine == [def |-> "none"]
NoBinding == [key |-> "none"]

NoComputation == [node |-> 0, entry |-> 0]

NodeIds == 1..Len(nodes)
IsCell(ns, n) == ns[n].kind = "cell"
IsDerived(ns, n) == ns[n].kind = "derived"
\* the states the caller holds a reference to (the dummy cells of createComputed
\* and createReactiveEffect never leave their closure)
Visible == {n \in NodeIds : ~nodes[n].dummy}
VisibleCells == {n \in Visible : IsCell(nodes, n)}

NoFn == [name |-> "thunk", reads |-> <<>>]

\* the closure state of createReactiveState (lines 20-22)
NewCell(v, isDummy) ==
    [kind |-> "cell", dummy |-> isDummy, currentValue |-> v, isDirty |-> FALSE,
     fn |-> NoFn, dependency |-> 0, subscribers |-> <<>>, derivedStates |-> <<>>,
     lastValue |-> Undefined]

\* the closure state of createDerivedState (lines 89-91); lastValue is the closure
\* variable of createMemoizedSelector (line 213), which owns one derived state
NewDerived(f, dep) ==
    [kind |-> "derived", dummy |-> FALSE, currentValue |-> Undefined, isDirty |-> TRUE,
     fn |-> f, dependency |-> dep, subscribers |-> <<>>, derivedStates |-> <<>>,
     lastValue |-> Undefined]

Event(e, n, c, v) == [ev |-> e, node |-> n, cb |-> c, val |-> v]

\* ------------------------------------------------------------ exceptions
\* `err` is the exception in flight, NoError when there is none.  A throw keeps
\* every assignment made before it: nothing in the engine rolls state back.
NoError == "none"
Failed(st) == st.err # NoError
Throw(st, e) == [st EXCEPT !.err = e, !.ret = Undefined]

\* statement sequencing.  Bind(x, K) is K applied to the outcome x of the
\* statements before it; Then(x, K) is the same when they completed, and their
\* outcome when they threw: the exception skips the statements that follow.
Bind(x, K(_)) == CHOOSE r \in {K(s) : s \in {x}} : TRUE
Then(x, K(_)) == CHOOSE r \in {IF Failed(s) THEN s ELSE K(s) : s \in {x}} : TRUE

\* ------------------------------------------------------------ reads
RECURSIVE value(_, _), compute(_, _), callReads(_, _, _, _), callFn(_, _, _, _),
          notify(_, _, _, _, _), update(_, _), updateAll(_, _, _), setValue(_, _, _)

\* createReactiveState.value (lines 24-35): register the cell under the active
\* computation, if any, and return currentValue.  The key of the map is the object
\* built by compute() for this run and the member added is a fresh object literal,
\* so neither an existing key nor an existing member is ever found again.
cellValue(st, n) ==
    LET tracked ==
          IF st.cur.node # 0
          THEN LET fresh == st.cur.entry = 0
                   g == IF fresh
                        THEN Append(st.graph, [comp |-> st.cur.node, deps |-> <<>>])
                        ELSE st.graph
                   e == IF fresh THEN Len(g) ELSE st.cur.entry
               IN  [st EXCEPT !.graph = [g EXCEPT ![e].deps = Append(@, n)],
                              !.cur.entry = e]
          ELSE st
    IN  [tracked EXCEPT !.ret = st.nodes[n].currentValue]

\* the values read by a caller-supplied function, one after the other, added to
\* its result on its argument
callReads(st, reads, i, acc) ==
    IF i > Len(reads) THEN [st EXCEPT !.ret = acc]
    ELSE Then(value(st, reads[i]),
              LAMBDA s : callReads(s, reads, i + 1, acc + s.ret))

\* objects returned by a selector: the content and the allocation that made it.
\* Two objects are the same object (===) when both agree.
Box(content, stamp) == 10 * content + stamp
Content(obj) == obj \div 10
Stamp(obj) == obj % 10

\* a newly allocated object is none of the objects still referred to; the only
\* reference the engine keeps to a selector's result is lastValue
FreshStamp(lastValue) == IF lastValue = Undefined THEN 0 ELSE 1 - Stamp(lastValue)

\* the selector handed to createMemoizedSelector:
\*   memoHalf...       v => ({ half: Math.ceil(v / 2) })   allocates its result
\*   memoBoxContent    v => ({ half: v })                  allocates its result
\*   memoNumberStrict  v => Math.ceil(v / 2)               a number: two equal
\*                     numbers are the same value, whenever they were made
Selector(name, x, lastValue) ==
    CASE name = "memoNumberStrict" -> Box(FnBase("half", x), 0)
      [] name = "memoBoxContent"   -> Box(x, FreshStamp(lastValue))
      [] OTHER                     -> Box(FnBase("half", x), FreshStamp(lastValue))

\* the equalityFn handed to createMemoizedSelector: the default (a, b) => a === b
\* (line 211), or (a, b) => a.half === b.half, a comparison of the contents
EqualityFn(name, a, b) ==
    IF name \in {"memoHalfStrict", "memoNumberStrict"}
    THEN a = b
    ELSE Content(a) = Content(b)

MemoNames == {"memoHalfStrict", "memoHalfContent", "memoBoxContent", "memoNumberStrict"}

\* the function of createMemoizedSelector without the equality test: every new
\* result replaces lastValue
memoized_alwaysReplaces(st, n, name, x) ==
    LET newValue == Selector(name, x, st.nodes[n].lastValue)
        s == [st EXCEPT !.nodes[n].lastValue = newValue]
    IN  [s EXCEPT !.ret = s.nodes[n].lastValue]

\* the function createMemoizedSelector derives with (lines 215-221)
memoized(st, n, name, x) ==
    LET lastValue == st.nodes[n].lastValue
        newValue == Selector(name, x, lastValue)
        s == IF lastValue = Undefined \/ ~EqualityFn(name, lastValue, newValue)
             THEN [st EXCEPT !.nodes[n].lastValue = newValue]
             ELSE st
    IN  [s EXCEPT !.ret = s.nodes[n].lastValue]

\* the body of the caller-supplied function f of state n (n = 0: of an effect)
\* called with x.  Besides the arithmetic of FnBase:
\*   throwAt2   v => { if (v === 2) throw new Error(); return v }
\*   gate       yv => yv >= 2 ? X.value() : 0            X is reads[1]
\*   self       v => d ? d.value() : v                   d is the state being made,
\*              assigned when derive returns, that is after its first compute
\*   write      v => { B.setValue(v); return v }         B is reads[1]
callFn(st, n, f, x) ==
    CASE f.name = "throwAt2" ->
           IF x = 2 THEN Throw(st, "Error") ELSE [st EXCEPT !.ret = x]
      [] f.name = "gate" ->
           IF x >= 2 THEN value(st, f.reads[1]) ELSE [st EXCEPT !.ret = 0]
      [] f.name = "self" ->
           IF st.nodes[n].currentValue = Undefined
           THEN [st EXCEPT !.ret = x]
           ELSE value(st, n)
      [] f.name = "write" ->
           Then(setValue(st, f.reads[1], [kind |-> "val", v |-> x, name |-> "inc"]),
                LAMBDA s : [s EXCEPT !.ret = x])
      [] f.name \in MemoNames -> memoized(st, n, f.name, x)
      [] OTHER -> callReads(st, f.reads, 1, FnBase(f.name, x))

\* compute without the isDirty test: the function runs on every read
compute_alwaysRuns(st, n) ==
    Bind(Then(value([st EXCEPT !.cur = [node |-> n, entry |-> 0]],
                    st.nodes[n].dependency),
              LAMBDA s2 :
         Then(callFn([s2 EXCEPT !.trace = Append(@, Event("run", n, 0, s2.ret))],
                     n, st.nodes[n].fn, s2.ret),
              LAMBDA s4 :
         [s4 EXCEPT !.nodes[n].currentValue = s4.ret,
                    !.nodes[n].isDirty = FALSE,
                    !.ret = s4.ret])),
         LAMBDA out : [out EXCEPT !.cur = st.cur])

\* compute that clears isDirty in its finally block, also when fn threw
compute_cleanOnThrow(st, n) ==
    IF ~st.nodes[n].isDirty THEN [st EXCEPT !.ret = st.nodes[n].currentValue]
    ELSE IF st.depth >= MaxStack THEN Throw(st, "RangeError")
    ELSE
    Bind(Then(value([st EXCEPT !.cur = [node |-> n, entry |-> 0], !.depth = @ + 1],
                    st.nodes[n].dependency),
              LAMBDA s2 :
         Then(callFn([s2 EXCEPT !.trace = Append(@, Event("run", n, 0, s2.ret))],
                     n, st.nodes[n].fn, s2.ret),
              LAMBDA s4 :
         [s4 EXCEPT !.nodes[n].currentValue = s4.ret,
                    !.nodes[n].isDirty = FALSE,
                    !.ret = s4.ret])),
         LAMBDA out : [out EXCEPT !.cur = st.cur, !.depth = st.depth,
                                  !.nodes[n].isDirty = FALSE])

\* createDerivedState.compute (lines 93-112): when the state is dirty, make it
\* the active computation, read the dependency (s2), call fn (s4) and assign
\* currentValue and isDirty.  The two assignments are skipped when
\* dependency.value() or fn throws; the finally block restores
\* currentComputation either way.  A call nested deeper than the stack allows
\* throws RangeError.
\* compute without the `finally` that restores currentComputation
compute_keepsSlot(st, n) ==
    IF ~st.nodes[n].isDirty THEN [st EXCEPT !.ret = st.nodes[n].currentValue]
    ELSE IF st.depth >= MaxStack THEN Throw(st, "RangeError")
    ELSE
    Bind(Then(value([st EXCEPT !.cur = [node |-> n, entry |-> 0], !.depth = @ + 1],
                    st.nodes[n].dependency),
              LAMBDA s2 :
         Then(callFn([s2 EXCEPT !.trace = Append(@, Event("run", n, 0, s2.ret))],
                     n, st.nodes[n].fn, s2.ret),
              LAMBDA s4 :
         [s4 EXCEPT !.nodes[n].currentValue = s4.ret,
                    !.nodes[n].isDirty = FALSE,
                    !.ret = s4.ret])),
         LAMBDA out : [out EXCEPT !.depth = st.depth])

compute(st, n) ==
    IF ~st.nodes[n].isDirty THEN [st EXCEPT !.ret = st.nodes[n].currentValue]
    ELSE IF st.depth >= MaxStack THEN Throw(st, "RangeError")
    ELSE
    Bind(Then(value([st EXCEPT !.cur = [node |-> n, entry |-> 0], !.depth = @ + 1],
                    st.nodes[n].dependency),
              LAMBDA s2 :
         Then(callFn([s2 EXCEPT !.trace = Append(@, Event("run", n, 0, s2.ret))],
                     n, st.nodes[n].fn, s2.ret),
              LAMBDA s4 :
         [s4 EXCEPT !.nodes[n].currentValue = s4.ret,
                    !.nodes[n].isDirty = FALSE,
                    !.ret = s4.ret])),
         LAMBDA out : [out EXCEPT !.cur = st.cur, !.depth = st.depth])

\* value() of either kind of state (lines 24-35 and 114-116)
value(st, n) ==
    IF IsCell(st.nodes, n) THEN cellValue(st, n) ELSE compute(st, n)

\* ------------------------------------------------------------ writes
\* the body of an effect, `() => log.push(x.value())`: read, then log
runEffect(st, f) ==
    Then(callFn(st, 0, f, Null),
         LAMBDA s : [s EXCEPT !.trace = Append(@, Event("effect", 0, 0, s.ret))])

\* one callback of a subscribers set called with v.  A user callback records the
\* value it is handed ("log"), throws after recording it ("throw"), or records
\* what value() of the state fn.reads[1] returns at that moment ("peek"); the
\* callback createReactiveEffect subscribes (lines 176-178) runs the effect.
callback(st, n, cb, v) ==
    CASE cb.kind = "effect" -> runEffect(st, cb.fn)
      [] cb.kind = "throw" ->
           Throw([st EXCEPT !.trace = Append(@, Event("notify", n, cb.id, v))], "Error")
      [] cb.kind = "peek" ->
           Then(value(st, cb.fn.reads[1]),
                LAMBDA s : [s EXCEPT !.trace =
                                Append(@, Event("peek", cb.fn.reads[1], cb.id, s.ret))])
      [] OTHER -> [st EXCEPT !.trace = Append(@, Event("notify", n, cb.id, v))]

\* subscribers.forEach((callback) => callback(v)) (lines 47 and 143): a callback
\* that throws ends the loop
notify(st, n, subs, i, v) ==
    IF i > Len(subs) THEN st
    ELSE Then(callback(st, n, subs[i], v),
              LAMBDA s : notify(s, n, subs, i + 1, v))

\* update without `isDirty = true`: compute() returns the cached value
update_keepsCache(st, n) ==
    LET oldValue == st.nodes[n].currentValue
    IN  Then(compute(st, n),
             LAMBDA s2 :
               IF s2.ret # oldValue
               THEN notify(s2, n, s2.nodes[n].subscribers, 1, s2.ret)
               ELSE s2)

\* update without the `newValue !== oldValue` test
update_alwaysNotifies(st, n) ==
    Then(compute([st EXCEPT !.nodes[n].isDirty = TRUE], n),
         LAMBDA s2 : notify(s2, n, s2.nodes[n].subscribers, 1, s2.ret))

\* createDerivedState.update (lines 137-145); s2 is the state after compute(),
\* whose result is newValue
update(st, n) ==
    LET oldValue == st.nodes[n].currentValue
    IN  Then(compute([st EXCEPT !.nodes[n].isDirty = TRUE], n),
             LAMBDA s2 :
               IF s2.ret # oldValue
               THEN notify(s2, n, s2.nodes[n].subscribers, 1, s2.ret)
               ELSE s2)

\* derivedStates.forEach(...) (lines 50-54): an update that throws ends the loop
updateAll(st, ds, i) ==
    IF i > Len(ds) THEN st
    ELSE Then(update(st, ds[i]), LAMBDA s : updateAll(s, ds, i + 1))

\* the argument of setValue: a value, or an updater function of the previous value
Resolve(arg, prev) ==
    IF arg.kind = "fn" THEN FnBase(arg.name, prev) ELSE arg.v

\* setValue that does not call an updater function: the value stays as it was
setValue_ignoresUpdater(st, n, arg) ==
    LET nextValue == IF arg.kind = "fn" THEN st.nodes[n].currentValue ELSE arg.v
        s0 == [st EXCEPT !.written[n] = Resolve(arg, st.nodes[n].currentValue)]
    IN  IF nextValue # st.nodes[n].currentValue
        THEN Then(notify([s0 EXCEPT !.nodes[n].currentValue = nextValue],
                         n, st.nodes[n].subscribers, 1, nextValue),
                  LAMBDA s2 : updateAll(s2, s2.nodes[n].derivedStates, 1))
        ELSE s0

\* setValue without the `nextValue !== currentValue` test
setValue_alwaysPropagates(st, n, arg) ==
    LET nextValue == Resolve(arg, st.nodes[n].currentValue)
    IN  Then(notify([st EXCEPT !.written[n] = nextValue,
                               !.nodes[n].currentValue = nextValue],
                    n, st.nodes[n].subscribers, 1, nextValue),
             LAMBDA s2 : updateAll(s2, s2.nodes[n].derivedStates, 1))

\* setValue (lines 37-56 of a cell; lines 118-120 of a derived state, which
\* throws): assign, call the subscribers (s2 is the state after them), update
\* the derived states.  `written` is the history of the resolved argument, not
\* part of the code.
\* setValue of a derived state that assigns instead of throwing
setValue_writesDerived(st, n, arg) ==
    LET nextValue == Resolve(arg, st.nodes[n].currentValue)
    IN  IF IsDerived(st.nodes, n)
        THEN [st EXCEPT !.nodes[n].currentValue = nextValue]
        ELSE IF nextValue # st.nodes[n].currentValue
        THEN Then(notify([st EXCEPT !.written[n] = nextValue,
                                    !.nodes[n].currentValue = nextValue],
                         n, st.nodes[n].subscribers, 1, nextValue),
                  LAMBDA s2 : updateAll(s2, s2.nodes[n].derivedStates, 1))
        ELSE [st EXCEPT !.written[n] = nextValue]

setValue(st, n, arg) ==
    IF IsDerived(st.nodes, n) THEN Throw(st, "Cannot set value on derived state")
    ELSE
    LET nextValue == Resolve(arg, st.nodes[n].currentValue)
    IN  IF nextValue # st.nodes[n].currentValue
        THEN Then(notify([st EXCEPT !.written[n] = nextValue,
                                    !.nodes[n].currentValue = nextValue],
                         n, st.nodes[n].subscribers, 1, nextValue),
                  LAMBDA s2 : updateAll(s2, s2.nodes[n].derivedStates, 1))
        ELSE [st EXCEPT !.written[n] = nextValue]

\* subscribe (lines 58-61 and 122-125): Set.add keeps one copy, in insertion order
subscribe(st, n, cb) ==
    IF \E i \in 1..Len(st.nodes[n].subscribers) : st.nodes[n].subscribers[i] = cb
    THEN st
    ELSE [st EXCEPT !.nodes[n].subscribers = Append(@, cb)]

\* subscribers.clear() in place of subscribers.delete(callback)
unsubscribe_removesAll(st, n, cb) ==
    [st EXCEPT !.nodes[n].subscribers = <<>>]

\* the function subscribe returns: subscribers.delete(callback)
unsubscribe(st, n, cb) ==
    [st EXCEPT !.nodes[n].subscribers = SelectSeq(@, LAMBDA c : c # cb)]

\* ------------------------------------------------------------ construction
\* createReactiveState (lines 19-80)
createReactiveState(st, v, isDummy) ==
    [st EXCEPT !.nodes = Append(@, NewCell(v, isDummy)),
               !.written = Append(@, v),
               !.ret = Len(st.nodes) + 1]

\* createDerivedState (lines 85-157): the state is computed once on creation.
\* When that first compute throws, the object is never returned: it stays on the
\* heap with nothing referring to it.
createDerivedState(st, f, dep) ==
    LET id == Len(st.nodes) + 1
    IN  Bind(compute([st EXCEPT !.nodes = Append(@, NewDerived(f, dep)),
                                !.written = Append(@, Undefined)], id),
             LAMBDA s2 : IF Failed(s2) THEN [s2 EXCEPT !.nodes[id].dummy = TRUE]
                         ELSE [s2 EXCEPT !.ret = id])

\* derive: of a cell (lines 63-72) the new state joins derivedStates; of a
\* derived state (lines 127-135) it is created and returned, nothing else
derive(st, n, f) ==
    Then(createDerivedState(st, f, n),
         LAMBDA s : IF IsCell(st.nodes, n)
                    THEN [s EXCEPT !.nodes[n].derivedStates = Append(@, s.ret)]
                    ELSE s)

\* createComputed (lines 162-166)
createComputed(st, f) ==
    Bind(createReactiveState(st, Null, TRUE), LAMBDA s : derive(s, s.ret, f))

\* the callback createReactiveEffect subscribes to its dummy cell: `() => fn()`
EffectCallback(f) == [kind |-> "effect", id |-> 0, fn |-> f]

\* createReactiveEffect (lines 171-184).  What fn returns is dropped both at
\* line 177 and at line 181.
createReactiveEffect(st, f) ==
    LET dummy == Len(st.nodes) + 1
    IN  Bind(subscribe(createReactiveState(st, Null, TRUE), dummy, EffectCallback(f)),
             LAMBDA s2 : Then(runEffect(s2, f), LAMBDA s3 : [s3 EXCEPT !.ret = dummy]))

\* the function createReactiveEffect returns (line 183): the unsubscribe function
\* of the dummy cell
dispose(st, dummy) ==
    unsubscribe(st, dummy, st.nodes[dummy].subscribers[1])

\* createSelector (lines 198-203)
createSelector(st, n, f) == derive(st, n, f)

\* createMemoizedSelector (lines 208-222)
createMemoizedSelector(st, n, name) ==
    derive(st, n, [name |-> name, reads |-> <<>>])

\* batch (lines 189-193): the updates run one after the other
RECURSIVE batch(_, _, _)
batch(st, updates, i) ==
    IF i > Len(updates) THEN st
    ELSE Then(setValue(st, updates[i].node, updates[i].arg),
              LAMBDA s : batch(s, updates, i + 1))

\* ------------------------------------------------------------ inputs
UserCallback(id) == [kind |-> "log", id |-> id, fn |-> NoFn]

Args == [kind : {"val"}, v : Values, name : {"inc"}]
        \cup [kind : {"fn"}, v : {0}, name : {"inc"}]

\* functions of one argument, which may also read one other state
DeriveFns ==
    [name : FnNames, reads : {<<>>}]
    \cup {[name |-> "inc", reads |-> <<m>>] : m \in Visible}

\* functions of no argument that read one or two states
Thunks ==
    {[name |-> "thunk", reads |-> <<m>>] : m \in Visible}
    \cup {[name |-> "thunk", reads |-> p] : p \in {q \in Visible \X Visible : q[1] < q[2]}}

\* the updates handed to batch: each writes a value to a cell
Updates == [node : VisibleCells, arg : {a \in Args : a.kind = "val"}]

Subscribed(n, id) ==
    \E j \in 1..Len(nodes[n].subscribers) : nodes[n].subscribers[j] = UserCallback(id)

SubscriptionCount ==
    Cardinality({p \in NodeIds \X CallbackIds : Subscribed(p[1], p[2])})

\* ------------------------------------------------------------ actions
\* `graph` holds the entries this call adds to dependencyGraph.  The keys of the
\* map are objects nothing else refers to and the map is never iterated, so
\* between calls it is the bag of its entries.
Start == [nodes |-> nodes, graph |-> <<>>, cur |-> currentComputation,
          written |-> written, trace |-> <<>>, ret |-> Null, err |-> NoError,
          depth |-> 0]

RECURSIVE AddEntries(_, _, _)
AddEntries(bag, entries, i) ==
    IF i > Len(entries) THEN bag
    ELSE AddEntries(bag (+) SetToBag({entries[i]}), entries, i + 1)

\* the caller's values stay within the bounds of the model
InBounds(st) ==
    /\ Len(st.nodes) > Len(nodes) => Len(st.nodes) <= MaxNodes
    /\ BagCardinality(dependencyGraph) + Len(st.graph) <= MaxGraph
    /\ \A n \in 1..Len(st.nodes) :
          IsCell(st.nodes, n) /\ ~st.nodes[n].dummy => st.nodes[n].currentValue \in Values

\* the module state after a call whose outcome is `call`, and the record of it
Commit(call, op, n, arg) ==
    \E st \in {call} :
        /\ InBounds(st)
        /\ nodes' = st.nodes
        /\ dependencyGraph' = AddEntries(dependencyGraph, st.graph, 1)
        /\ currentComputation' = st.cur
        /\ written' = st.written
        /\ last' = [op |-> op, node |-> n, arg |-> arg, ret |-> st.ret,
                    trace |-> st.trace, err |-> st.err,
                    changed |-> {c \in NodeIds : IsCell(nodes, c)
                                    /\ st.nodes[c].currentValue # nodes[c].currentValue}]
        /\ UNCHANGED <<machine, binding>>

NoArg == [kind |-> "val", v |-> 0, name |-> "inc"]

CreateReactiveState ==
    \E v \in Values :
        /\ Cardinality(VisibleCells) < MaxCells
        /\ Commit(createReactiveState(Start, v, FALSE), "createReactiveState",
                  Len(nodes) + 1, NoArg)

Value ==
    \E n \in Visible : Commit(value(Start, n), "value", n, NoArg)

SetValue ==
    \E n \in VisibleCells, arg \in Args :
        Commit(setValue(Start, n, arg), "setValue", n, arg)

Subscribe ==
    \E n \in Visible, id \in CallbackIds :
        /\ SubscriptionCount < MaxSubs
        /\ Commit(subscribe(Start, n, UserCallback(id)), "subscribe", n, NoArg)

Unsubscribe ==
    \E n \in Visible, id \in CallbackIds :
        /\ Subscribed(n, id)
        /\ Commit(unsubscribe(Start, n, UserCallback(id)), "unsubscribe", n, NoArg)

Derive ==
    \E n \in Visible, f \in DeriveFns :
        \E s \in {derive(Start, n, f)} : Commit(s, "derive", s.ret, NoArg)

CreateDerivedState ==
    \E n \in Visible, f \in DeriveFns :
        \E s \in {createDerivedState(Start, f, n)} : Commit(s, "createDerivedState", s.ret, NoArg)

CreateComputed ==
    \E f \in Thunks :
        \E s \in {createComputed(Start, f)} : Commit(s, "createComputed", s.ret, NoArg)

CreateReactiveEffect ==
    \E f \in Thunks :
        \E s \in {createReactiveEffect(Start, f)} : Commit(s, "createReactiveEffect", s.ret, NoArg)

Batch ==
    \E k \in 1..MaxBatch : \E updates \in [1..k -> Updates] :
        Commit(batch(Start, updates, 1), "batch", 0, NoArg)

\* ------------------------------------------------------------ initial states
EmptyHeap == [nodes |-> <<>>, graph |-> <<>>, cur |-> NoComputation,
              written |-> <<>>, trace |-> <<>>, ret |-> Null, err |-> NoError,
              depth |-> 0]

\* the caller's set-up code for a diamond:
\*   a = createReactiveState(v); b = a.derive(x => x + 1); c = a.derive(x => x * 10);
\*   d = createComputed(() => b.value() + c.value())
\* a is node 1, b node 2, c node 3, d's dummy cell node 4 and d node 5
Diamond(v) ==
    Bind(derive(createReactiveState(EmptyHeap, v, FALSE), 1,
                [name |-> "inc", reads |-> <<>>]),
         LAMBDA b :
    Bind(derive(b, 1, [name |-> "times10", reads |-> <<>>]),
         LAMBDA c :
    createComputed(c, [name |-> "thunk", reads |-> <<2, 3>>])))

\* the engine starts with no state at all; the caller either builds its states
\* step by step or has already built the diamond
Programs == {EmptyHeap} \cup {Diamond(v) : v \in Values}

Init ==
    /\ \E p \in Programs :
          /\ nodes = p.nodes
          /\ dependencyGraph = AddEntries(EmptyBag, p.graph, 1)
          /\ currentComputation = p.cur
          /\ written = p.written
    /\ last = [op |-> "init", node |-> 0, arg |-> NoArg, ret |-> Null, trace |-> <<>>,
               err |-> NoError,
               changed |-> {}]
    /\ machine = NoMachine
    /\ binding = NoBinding

Next ==
    \/ CreateReactiveState
    \/ Value
    \/ SetValue
    \/ Subscribe
    \/ Unsubscribe
    \/ Derive
    \/ CreateDerivedState
    \/ CreateComputed
    \/ CreateReactiveEffect
    \/ Batch

Spec == Init /\ [][Next]_vars

InSeq(x, seq) == \E i \in 1..Len(seq) : seq[i] = x

\* ------------------------------------------- callers that misbehave or observe
\* The second specification starts after set-up code of the caller that hands
\* the engine functions that throw, write, read themselves or read
\* conditionally, a memoized selector, or an effect that returns a cleanup
\* function; its actions are the calls made after set-up: reads, writes,
\* subscriptions and the disposal of an effect.
Fn(name) == [name |-> name, reads |-> <<>>]
FnReading(name, m) == [name |-> name, reads |-> <<m>>]

\* a = createReactiveState(v); d = a.derive(f)
Derived(v, f) == derive(createReactiveState(EmptyHeap, v, FALSE), 1, f)

\* a = createReactiveState(v); d = a.derive(f); e = d.derive(x => x + 1)
Chain(v, f) == Bind(Derived(v, f), LAMBDA s : derive(s, 2, Fn("inc")))

\* a = createReactiveState(v); d1 = a.derive(f); d2 = a.derive(x => x + 1)
Siblings(v, f) == Bind(Derived(v, f), LAMBDA s : derive(s, 1, Fn("inc")))

\* y = createReactiveState(v); x = createReactiveState(w); d = y.derive(f),
\* where f reads or writes x
TwoCells(v, w, name) ==
    Bind(createReactiveState(createReactiveState(EmptyHeap, v, FALSE), w, FALSE),
         LAMBDA s : derive(s, 1, FnReading(name, 2)))

\* x = createReactiveState(v);
\* dispose = createReactiveEffect(() => { log.push(x.value()); return cleanup })
Effect(v) ==
    createReactiveEffect(createReactiveState(EmptyHeap, v, FALSE),
                         FnReading("thunkCleanup", 1))

\* a = createReactiveState(v); m = createMemoizedSelector(a, selector, equalityFn)
Memoized(v, name) ==
    createMemoizedSelector(createReactiveState(EmptyHeap, v, FALSE), 1, name)

\* set-up code that ran to its end: an exception thrown by a constructor would
\* have ended it
FaultPrograms ==
    {p \in {Chain(v, Fn("half")) : v \in Values}
           \cup {Siblings(v, Fn("throwAt2")) : v \in Values}
           \cup {Derived(v, Fn(name)) : v \in Values, name \in {"inc", "self"}}
           \cup {TwoCells(v, w, name) : v \in Values, w \in Values,
                                        name \in {"gate", "write"}}
           \cup {Effect(v) : v \in Values}
           \cup {Memoized(v, name) : v \in Values, name \in MemoNames} :
        ~Failed(p)}

\* callbacks handed to subscribe on cell n besides the logging one: one that
\* throws, and one for each derived state of n, reading that state
ThrowingCallback == [kind |-> "throw", id |-> MaxSubs + 1, fn |-> NoFn]
PeekCallback(d) == [kind |-> "peek", id |-> MaxSubs + 2, fn |-> FnReading("thunk", d)]
Observers(n) ==
    {ThrowingCallback}
    \cup {PeekCallback(d) : d \in {m \in Visible : IsDerived(nodes, m)
                                                   /\ nodes[m].dependency = n}}

\* the dummy cells of the effects that have not been disposed
Effects == {e \in NodeIds : /\ IsCell(nodes, e) /\ nodes[e].dummy
                            /\ Len(nodes[e].subscribers) = 1
                            /\ nodes[e].subscribers[1].kind = "effect"}

FnArg(f) == [kind |-> "fn", v |-> 0, name |-> f.name]

SubscribeObserver ==
    \E n \in VisibleCells : \E cb \in Observers(n) :
        /\ ~InSeq(cb, nodes[n].subscribers)
        /\ Len(nodes[n].subscribers) < MaxObservers
        /\ Commit(subscribe(Start, n, cb), "subscribe", n, NoArg)

UnsubscribeObserver ==
    \E n \in VisibleCells : \E cb \in Observers(n) :
        /\ InSeq(cb, nodes[n].subscribers)
        /\ Commit(unsubscribe(Start, n, cb), "unsubscribe", n, NoArg)

\* calling the function createReactiveEffect returned
Dispose ==
    \E e \in Effects :
        Commit(dispose(Start, e), "dispose", e, FnArg(nodes[e].subscribers[1].fn))

\* setValue called on a derived state the caller holds
SetValueDerived ==
    \E d \in {m \in Visible : IsDerived(nodes, m)} : \E arg \in Args :
        Commit(setValue(Start, d, arg), "setValue", d, arg)

FaultInit ==
    /\ \E p \in FaultPrograms :
          /\ nodes = p.nodes
          /\ dependencyGraph = AddEntries(EmptyBag, p.graph, 1)
          /\ currentComputation = p.cur
          /\ written = p.written
    /\ last = [op |-> "init", node |-> 0, arg |-> NoArg, ret |-> Null, trace |-> <<>>,
               err |-> NoError, changed |-> {}]
    /\ machine = NoMachine
    /\ binding = NoBinding

FaultNext ==
    \/ Value
    \/ SetValue
    \/ Subscribe
    \/ Unsubscribe
    \/ SubscribeObserver
    \/ UnsubscribeObserver
    \/ Dispose
    \/ SetValueDerived

FaultSpec == FaultInit /\ [][FaultNext]_vars

\* ------------------------------------------------------------ properties
\* what value() of state n returns when the caller calls it now
Reads(n) == value(Start, n).ret

\* the caller's function f applied to x and the values read now
RECURSIVE SumReads(_, _)
SumReads(reads, i) ==
    IF i > Len(reads) THEN 0 ELSE Reads(reads[i]) + SumReads(reads, i + 1)

Applied(f, x) == FnBase(f.name, x) + SumReads(f.reads, 1)

Pure(f) == f.reads = <<>>

\* the events of the last call in which the function of state n ran
Runs(n) == SelectSeq(last.trace, LAMBDA e : e.ev = "run" /\ e.node = n)
\* the events of the last call in which callback id subscribed to n was invoked
Notified(n, id) ==
    SelectSeq(last.trace, LAMBDA e : e.ev = "notify" /\ e.node = n /\ e.cb = id)
EffectRuns == SelectSeq(last.trace, LAMBDA e : e.ev = "effect")

\* d was made by a.derive(...) on the cell a the caller holds
DerivedOf(d, a) ==
    /\ IsDerived(nodes, d) /\ IsCell(nodes, a) /\ ~nodes[a].dummy
    /\ nodes[d].dependency = a
    /\ InSeq(d, nodes[a].derivedStates)

\* d was made by createDerivedState(fn, a) called directly
DirectOf(d, a) ==
    /\ IsDerived(nodes, d) /\ IsCell(nodes, a) /\ ~nodes[a].dummy
    /\ nodes[d].dependency = a
    /\ ~InSeq(d, nodes[a].derivedStates)

\* d was made by createComputed
IsComputed(d) ==
    /\ IsDerived(nodes, d)
    /\ nodes[nodes[d].dependency].dummy

\* e is the dummy cell of an effect whose function is f
IsEffect(e, f) ==
    /\ nodes[e].dummy
    /\ InSeq(EffectCallback(f), nodes[e].subscribers)

\* C1: value() of a cell returns the argument of the last setValue on it (for an
\* updater, its result on the value held just before), or the initial value when
\* there was no setValue.
C1_CellLastWrite ==
    /\ \A n \in VisibleCells : Reads(n) = written[n]
    /\ last.op = "value" /\ IsCell(nodes, last.node) => last.ret = written[last.node]

C1_Witness ==
    /\ last.op = "setValue" /\ last.arg.kind = "fn"
    /\ last.node \in last.changed
    /\ Reads(last.node) = 2

\* C2: for b = a.derive(fn), b.value() is fn applied to the current a.value(),
\* whatever was written to a.
C2_DeriveFollowsCell ==
    \A a \in NodeIds, b \in NodeIds :
        DerivedOf(b, a) /\ Pure(nodes[b].fn) =>
            Reads(b) = FnBase(nodes[b].fn.name, Reads(a))

C2_Witness ==
    \E a \in NodeIds, b \in NodeIds :
        /\ DerivedOf(b, a) /\ nodes[b].fn = [name |-> "double", reads |-> <<>>]
        /\ last.op = "setValue" /\ last.node = a /\ a \in last.changed
        /\ Reads(a) = 2 /\ Reads(b) = 4

\* C3: a derived state made by createDerivedState(fn, cell) called directly reads
\* fn of the cell's current value after any cell.setValue.
C3_DirectDerivedFollowsCell ==
    \A a \in NodeIds, b \in NodeIds :
        DirectOf(b, a) /\ Pure(nodes[b].fn) =>
            Reads(b) = FnBase(nodes[b].fn.name, Reads(a))

\* C4: for c = b.derive(g) with b = a.derive(f), c.value() is g(f(a.value())),
\* and c and b are not dirty.
C4_ChainFollowsCell ==
    \A a \in NodeIds, b \in NodeIds, c \in NodeIds :
        /\ DerivedOf(b, a) /\ Pure(nodes[b].fn)
        /\ IsDerived(nodes, c) /\ nodes[c].dependency = b /\ Pure(nodes[c].fn)
        => /\ ~nodes[c].isDirty /\ ~nodes[b].isDirty
           /\ Reads(c) = FnBase(nodes[c].fn.name, FnBase(nodes[b].fn.name, Reads(a)))

\* C5: a computed value, or a derived state of a cell, whose function reads cells
\* through value() returns a value computed from the current values of those cells.
C5_TrackedReadsFollow ==
    \A d \in NodeIds :
        /\ IsDerived(nodes, d)
        /\ IsComputed(d) \/ DerivedOf(d, nodes[d].dependency)
        /\ ~Pure(nodes[d].fn)
        /\ \A i \in 1..Len(nodes[d].fn.reads) : nodes[d].fn.reads[i] \in VisibleCells
        => Reads(d) = Applied(nodes[d].fn, Reads(nodes[d].dependency))

\* C6: in a diamond (b and c derived from cell a, d computed from b and c) one
\* write that changes a runs d's function exactly once, and d then reads the
\* function of the new b and the new c.
IsDiamond(a, b, c, d) ==
    /\ DerivedOf(b, a) /\ DerivedOf(c, a) /\ b # c
    /\ IsComputed(d) /\ nodes[d].fn.reads = <<b, c>>

C6_DiamondGlitchFree ==
    \A a \in NodeIds, b \in NodeIds, c \in NodeIds, d \in NodeIds :
        IsDiamond(a, b, c, d) /\ last.op = "setValue" /\ a \in last.changed =>
            /\ Len(Runs(d)) = 1
            /\ Reads(d) = Reads(b) + Reads(c)

\* C7: the writes of one batch call are propagated once: a subscriber or effect
\* of a cell the batch wrote runs at most once in that call and is handed the
\* final value of its cell, and runs exactly once when the batch changed the cell.
C7_BatchCoalesces ==
    last.op = "batch" =>
        /\ \A n \in VisibleCells, id \in CallbackIds :
              Subscribed(n, id) =>
                  /\ Len(Notified(n, id)) <= 1
                  /\ n \in last.changed => Len(Notified(n, id)) = 1
                  /\ \A i \in 1..Len(Notified(n, id)) : Notified(n, id)[i].val = Reads(n)
        /\ \A e \in NodeIds, x \in VisibleCells :
              IsEffect(e, [name |-> "thunk", reads |-> <<x>>]) /\ x \in last.changed =>
                  EffectRuns = <<Event("effect", 0, 0, Reads(x))>>

\* C8: createReactiveEffect(fn) runs fn exactly once at creation, and a write that
\* changes a cell fn read runs fn again.
C8_EffectReruns ==
    /\ last.op = "createReactiveEffect" => Len(EffectRuns) = 1
    /\ \A e \in NodeIds, x \in VisibleCells :
          /\ IsEffect(e, [name |-> "thunk", reads |-> <<x>>])
          /\ last.op = "setValue" /\ x \in last.changed
          => Len(EffectRuns) >= 1

\* C9: a setValue whose resolved value equals the cell's current value changes
\* nothing: no stored value, no subscriber call, no recomputation of a derived state.
C9_UnchangedWriteIsNoOp ==
    [][ (last'.op = "setValue"
          /\ Resolve(last'.arg, nodes[last'.node].currentValue)
               = nodes[last'.node].currentValue)
        => (nodes' = nodes /\ dependencyGraph' = dependencyGraph
            /\ last'.trace = <<>>) ]_vars

C9_Witness ==
    /\ last.op = "setValue" /\ last.changed = {} /\ last.trace = <<>>
    /\ nodes[last.node].subscribers # <<>>
    /\ nodes[last.node].derivedStates # <<>>

\* C10: value() of a derived state that is not dirty returns the cached value
\* and does not run its function, however often it is called.
C10_CleanReadIsIdempotent ==
    [][ (last'.op = "value" /\ IsDerived(nodes, last'.node)
          /\ ~nodes[last'.node].isDirty)
        => (last'.ret = nodes[last'.node].currentValue
            /\ last'.trace = <<>>
            /\ nodes' = nodes) ]_vars

C10_Witness ==
    /\ last.op = "value" /\ IsDerived(nodes, last.node)
    /\ last.ret = 20 /\ last.trace = <<>>

\* ----------------------------------------- properties of the second specification
\* the events of the last call in which a callback subscribed to n was invoked
NotifiedAny(n) == SelectSeq(last.trace, LAMBDA e : e.ev = "notify" /\ e.node = n)

\* the derived states made by d.derive(...)
DependentsOf(d) == {e \in NodeIds : IsDerived(nodes, e) /\ nodes[e].dependency = d}

\* C11: when a write makes a derived state recompute and the result equals the
\* value it had cached, none of its subscribers is called and the states derived
\* from it are neither marked dirty nor recomputed.
C11_EqualResultStopsHere ==
    [][ \A d \in NodeIds :
          (/\ IsDerived(nodes, d)
           /\ last'.op = "setValue" /\ last'.err = NoError
           /\ Runs(d)' # <<>>
           /\ nodes'[d].currentValue = nodes[d].currentValue)
          => /\ NotifiedAny(d)' = <<>>
             /\ \A e \in DependentsOf(d) :
                   /\ nodes'[e].isDirty = nodes[e].isDirty
                   /\ Runs(e)' = <<>> ]_vars

C11_Witness ==
    \E d \in NodeIds :
        /\ IsDerived(nodes, d) /\ nodes[d].fn.name = "half"
        /\ DependentsOf(d) # {}
        /\ Subscribed(d, 1)
        /\ last.op = "setValue" /\ last.node = nodes[d].dependency
        /\ last.changed = {last.node} /\ last.err = NoError
        /\ Len(Runs(d)) = 1
        /\ NotifiedAny(d) = <<>>

\* d = y.derive(yv => yv >= 2 ? x.value() : 0): d reads x only while y is "true"
GatedBy(d, y, x) ==
    /\ IsDerived(nodes, d) /\ nodes[d].fn = FnReading("gate", x)
    /\ nodes[d].dependency = y

\* C12: a derived state that reads cell x only while cell y is true runs its
\* function on a write to x exactly while y is true: after y was written false
\* (and the state recomputed) a write that changes x does not run it, and while
\* y is true it does.
C12_ConditionalReadFollows ==
    \A d, y, x \in NodeIds :
        (GatedBy(d, y, x) /\ last.op = "setValue" /\ last.node = x
            /\ x \in last.changed)
        => (Runs(d) # <<>> <=> nodes[y].currentValue >= 2)

\* C13: a derived state whose function reads the state itself while it is being
\* recomputed gets a CyclicDependencyError from that read instead of recursing:
\* the function is entered once, the cached value stays and the state stays dirty.
C13_SelfReadIsDetected ==
    \A d \in NodeIds :
        (/\ IsDerived(nodes, d) /\ nodes[d].fn.name = "self"
         /\ last.op = "setValue" /\ last.node = nodes[d].dependency
         /\ last.node \in last.changed)
        => /\ last.err = "CyclicDependencyError"
           /\ Len(Runs(d)) = 1
           /\ nodes[d].isDirty

\* the cell that the function of d writes: d = a.derive(v => { b.setValue(v); return v })
WritesTo(d, b) == IsDerived(nodes, d) /\ nodes[d].fn = FnReading("write", b)

\* C14: a setValue attempted while a derived state is being computed is rejected
\* with WriteDuringComputeError: the cell keeps its value and nobody is notified.
C14_WriteInComputeRejected ==
    \A d, b \in NodeIds :
        (/\ WritesTo(d, b)
         /\ last.op = "setValue" /\ last.node = nodes[d].dependency
         /\ Runs(d) # <<>>)
        => /\ last.err = "WriteDuringComputeError"
           /\ b \notin last.changed
           /\ NotifiedAny(b) = <<>>

\* the function f throws when it is called with x
ThrowsOn(f, x) == (f.name = "throwAt2" /\ x = 2) \/ f.name = "self"

\* in the last call the function of d was called and threw
Threw(d) ==
    /\ IsDerived(nodes, d)
    /\ \E i \in 1..Len(last.trace) :
          /\ last.trace[i].ev = "run" /\ last.trace[i].node = d
          /\ ThrowsOn(nodes[d].fn, last.trace[i].val)

\* C15: when the function of a derived state throws during a recomputation, the
\* cached value is left as it was, the state remains dirty and the error reaches
\* the caller; reading a dirty state runs its function again.
C15_ThrowKeepsCacheAndDirty ==
    [][ /\ \A d \in NodeIds :
              Threw(d)' => /\ nodes'[d].currentValue = nodes[d].currentValue
                           /\ nodes'[d].isDirty
                           /\ last'.err # NoError
        /\ \A d \in NodeIds :
              (/\ last'.op = "value" /\ last'.node = d
               /\ IsDerived(nodes, d) /\ nodes[d].isDirty)
              => Runs(d)' # <<>> ]_vars

C15_Witness ==
    \E d \in NodeIds :
        /\ Threw(d) /\ nodes[d].fn.name = "throwAt2"
        /\ last.op = "value" /\ last.node = d /\ last.err = "Error"
        /\ nodes[d].isDirty /\ nodes[d].currentValue = 1
        /\ nodes[nodes[d].dependency].currentValue = 2

\* C16: when the function of one derived state throws while a write is
\* propagated, the other derived states of the written cell still reflect the new
\* value of the cell.
C16_SiblingsSurviveThrow ==
    \A a, t, d \in NodeIds :
        (/\ DerivedOf(t, a) /\ DerivedOf(d, a) /\ d # t
         /\ last.op = "setValue" /\ last.node = a /\ Threw(t)
         /\ Pure(nodes[d].fn) /\ nodes[d].fn.name = "inc")
        => Reads(d) = Applied(nodes[d].fn, nodes[a].currentValue)

\* C17: when a callback subscribed to a cell throws while a write is propagated,
\* every other callback subscribed to the cell is still called and the derived
\* states of the cell are still updated.
C17_CallbackThrowIsIsolated ==
    \A a \in NodeIds :
        (/\ IsCell(nodes, a) /\ InSeq(ThrowingCallback, nodes[a].subscribers)
         /\ last.op = "setValue" /\ last.node = a /\ a \in last.changed)
        => /\ \A id \in CallbackIds : Subscribed(a, id) => Notified(a, id) # <<>>
           /\ \A d \in NodeIds :
                 (DerivedOf(d, a) /\ Pure(nodes[d].fn) /\ nodes[d].fn.name = "inc")
                 => nodes[d].currentValue = Applied(nodes[d].fn, nodes[a].currentValue)

\* what the callbacks reading d observed during the last call
Peeks(d) == SelectSeq(last.trace, LAMBDA e : e.ev = "peek" /\ e.node = d)

\* C18: a callback called because of a write to a cell runs after the derived
\* states of the cell have settled: value() of a derived state of that cell, read
\* inside the callback, is the value computed from the cell's new value.
C18_CallbackSeesSettledDerived ==
    \A a, d \in NodeIds :
        (/\ DerivedOf(d, a) /\ Pure(nodes[d].fn) /\ nodes[d].fn.name = "inc"
         /\ last.op = "setValue" /\ last.node = a /\ a \in last.changed)
        => \A i \in 1..Len(Peeks(d)) :
              Peeks(d)[i].val = Applied(nodes[d].fn, nodes[a].currentValue)

\* C19: the function createReactiveEffect returns calls the cleanup that the
\* effect's last run returned and removes the effect, so that no later write
\* runs it.
C19_DisposeRunsCleanup ==
    (last.op = "dispose" /\ last.arg.name = "thunkCleanup")
    => /\ \E i \in 1..Len(last.trace) : last.trace[i].ev = "cleanup"
       /\ nodes[last.node].subscribers = <<>>

\* m = createMemoizedSelector(a, selector, equalityFn) on the cell a
MemoizedOf(m, a) == DerivedOf(m, a) /\ nodes[m].fn.name \in MemoNames

\* what selector(a.value()) returns when the caller calls it now
Selected(m, a) == Selector(nodes[m].fn.name, nodes[a].currentValue, nodes[m].lastValue)

EqualOnRepeat(name) ==
    \A x \in Values :
        EqualityFn(name, Selector(name, x, Undefined),
                   Selector(name, x, Selector(name, x, Undefined)))

C21_DeriveAndWriteDoNotCompute ==
    \A d \in NodeIds :
        (IsDerived(nodes, d) /\ last.op \in {"derive", "setValue"}) => Runs(d) = <<>>

\* the number of entries dependencyGraph holds for computations of state d
EntriesOf(d) ==
    BagCardinality([e \in {x \in BagToSet(dependencyGraph) : x.comp = d}
                        |-> CopiesIn(e, dependencyGraph)])

\* C22 as stated: every recomputation clears and rebuilds the dependency set of
\* the state, so one state has one recorded set however often it is recomputed.
C22_OneDependencySetPerState ==
    \A d \in NodeIds : IsDerived(nodes, d) => EntriesOf(d) <= 1

\* the values currentComputation may hold when compute() of a state is entered
Slots == {NoComputation} \cup {[node |-> m, entry |-> 0] : m \in NodeIds}

\* C23: currentComputation is empty whenever no computation is on the stack, and
\* a call of compute(), nested or not, returning or throwing, leaves in it the
\* value it held before the call.
C23_SlotRestored ==
    /\ currentComputation = NoComputation
    /\ \A d \in NodeIds : \A c \in Slots :
          IsDerived(nodes, d) => compute([Start EXCEPT !.cur = c], d).cur = c

C23_Witness ==
    \E d \in NodeIds :
        /\ Threw(d) /\ Len(Runs(d)) >= 2
        /\ last.err # NoError
        /\ currentComputation = NoComputation

\* the events of the last call in which callback cb of cell a was called
CallsOf(a, cb) ==
    IF cb.kind = "peek"
    THEN SelectSeq(last.trace, LAMBDA e : /\ e.ev = "peek" /\ e.cb = cb.id
                                          /\ e.node = cb.fn.reads[1])
    ELSE Notified(a, cb.id)

\* no callback subscribed to cell a throws when it is called with v, the value
\* just assigned to a
QuietCallbacks(a, v) ==
    \A i \in 1..Len(nodes[a].subscribers) :
        ~Failed(callback([Start EXCEPT !.nodes[a].currentValue = v],
                         a, nodes[a].subscribers[i], v))

C25_DerivedSetValueThrows ==
    [][ (last'.op = "setValue" /\ IsDerived(nodes, last'.node))
        => /\ last'.err = "Cannot set value on derived state"
           /\ nodes' = nodes /\ written' = written
           /\ dependencyGraph' = dependencyGraph
           /\ last'.trace = <<>> ]_vars

C25_Witness ==
    \E d \in NodeIds :
        /\ IsDerived(nodes, d) /\ nodes[d].subscribers # <<>>
        /\ last.op = "setValue" /\ last.node = d
        /\ last.err = "Cannot set value on derived state"

\* ------------------------------------------------------------ state machines
\* src/state/state-machine.ts.  A machine is the closure createStateMachine
\* returns: currentState, context, subscribers and the arguments it was made
\* with.  `context` and `initialContext` are references into `heap`, the objects
\* the caller made; the content of a context object is its counter, which the
\* caller's guards read and the caller's actions change in place.  `created` is
\* the history of the content initialContext had at creation.
MaxCount == 2
MaxMachineSubs == 2

Transition(from, event, to, guard, action) ==
    [from |-> from, event |-> event, to |-> to, guard |-> guard, action |-> action]

\* the transitions of createToggleMachine (lines 96-99)
ToggleTransitions ==
    << Transition("off", "toggle", "on", "none", "none"),
       Transition("on", "toggle", "off", "none", "none") >>

\* the transitions of createLoadingMachine (lines 110-116)
LoadingTransitions ==
    << Transition("idle", "start", "loading", "none", "none"),
       Transition("loading", "complete", "success", "none", "none"),
       Transition("loading", "error", "error", "none", "none"),
       Transition("success", "start", "idle", "none", "none"),
       Transition("error", "start", "idle", "none", "none") >>

\* transitions a caller declares: two for the event `go` from `idle`, the first
\* guarded by `ctx => ctx.count >= 1`; `bump` guarded by `ctx => ctx.count < 2`
\* with the action `ctx => { ctx.count++ }`; `fail` with an action that throws
GuardedTransitions ==
    << Transition("idle", "go", "busy", "positive", "none"),
       Transition("idle", "go", "done", "none", "none"),
       Transition("idle", "bump", "idle", "belowMax", "increment"),
       Transition("busy", "fail", "done", "none", "throw"),
       Transition("busy", "back", "idle", "none", "none"),
       Transition("done", "back", "idle", "none", "none") >>

Transitions(def) ==
    CASE def = "toggle" -> ToggleTransitions
      [] def = "loading" -> LoadingTransitions
      [] def = "guarded" -> GuardedTransitions

Events == {"toggle", "start", "complete", "error", "go", "bump", "fail", "back"}

\* transition.guard(context)
Guard(guard, content) ==
    CASE guard = "positive" -> content >= 1
      [] guard = "belowMax" -> content < MaxCount
      [] OTHER -> TRUE

\* createStateMachine (lines 21-87): the state after the three `let`/`const`
createStateMachine(def, initialState, heap, initialContext, onStateChange) ==
    [def |-> def, onStateChange |-> onStateChange,
     initialState |-> initialState, initialContext |-> initialContext,
     currentState |-> initialState, context |-> initialContext,
     subscribers |-> <<>>, heap |-> heap, created |-> heap[initialContext]]

\* createToggleMachine (lines 92-101): the context is the boolean itself
createToggleMachine(initialState) ==
    createStateMachine("toggle", IF initialState THEN "on" ELSE "off",
                       << IF initialState THEN 1 ELSE 0 >>, 1, "none")

\* createLoadingMachine (lines 106-118): the context is {}
createLoadingMachine == createStateMachine("loading", "idle", <<0>>, 1, "none")

\* what the getter `context` shows
Context(m) == m.heap[m.context]

MachineEvent(ev, cb, from, m) ==
    [ev |-> ev, cb |-> cb, from |-> from, state |-> m.currentState,
     context |-> Context(m)]

\* can (lines 31-37): transitions.some(...)
can(m, event) ==
    \E i \in 1..Len(Transitions(m.def)) :
        LET t == Transitions(m.def)[i]
        IN  /\ t.from = m.currentState /\ t.event = event
            /\ (t.guard = "none" \/ Guard(t.guard, Context(m)))

\* find that returns the last match
RECURSIVE find_last(_, _, _)
find_last(m, event, i) ==
    IF i > Len(Transitions(m.def)) THEN 0
    ELSE IF find_last(m, event, i + 1) # 0 THEN find_last(m, event, i + 1)
    ELSE IF /\ Transitions(m.def)[i].from = m.currentState
            /\ Transitions(m.def)[i].event = event
         THEN i
         ELSE 0

\* transitions.find(...) (lines 40-43): the index of the first transition from
\* currentState for the event, 0 if there is none
RECURSIVE find(_, _, _)
find(m, event, i) ==
    IF i > Len(Transitions(m.def)) THEN 0
    ELSE IF /\ Transitions(m.def)[i].from = m.currentState
            /\ Transitions(m.def)[i].event = event
         THEN i
         ELSE find(m, event, i + 1)

\* transition.action(context) (lines 56-58)
action(s, a) ==
    CASE a = "increment" ->
           Bind([s EXCEPT !.m.heap[s.m.context] = @ + 1],
                LAMBDA s1 : [s1 EXCEPT !.trace =
                                 Append(@, MachineEvent("action", 0, "", s1.m))])
      [] a = "throw" ->
           Throw([s EXCEPT !.trace = Append(@, MachineEvent("action", 0, "", s.m))],
                 "Error")
      [] OTHER -> s

\* onStateChange(fromState, currentState, context) (lines 60-62)
onStateChange(s, fromState) ==
    CASE s.m.onStateChange = "log" ->
           [s EXCEPT !.trace = Append(@, MachineEvent("onStateChange", 0, fromState, s.m))]
      [] s.m.onStateChange = "throw" ->
           Throw([s EXCEPT !.trace =
                      Append(@, MachineEvent("onStateChange", 0, fromState, s.m))],
                 "Error")
      [] OTHER -> s

\* subscribers.forEach(callback => callback(currentState, context)) (lines 65, 76)
RECURSIVE notifySubscribers(_, _)
notifySubscribers(s, i) ==
    IF i > Len(s.m.subscribers) THEN s
    ELSE notifySubscribers(
             [s EXCEPT !.trace = Append(@, MachineEvent("notify", s.m.subscribers[i],
                                                        "", s.m))],
             i + 1)

\* send (lines 39-66)
send(s, event) ==
    LET i == find(s.m, event, 1)
        transition == Transitions(s.m.def)[i]
        fromState == s.m.currentState
    IN  IF i = 0 THEN Throw(s, "Cannot send event")
        ELSE IF transition.guard # "none" /\ ~Guard(transition.guard, Context(s.m))
        THEN Throw(s, "Guard failed")
        ELSE Then(Then(action([s EXCEPT !.m.currentState = transition.to],
                              transition.action),
                       LAMBDA s2 : onStateChange(s2, fromState)),
                  LAMBDA s3 : notifySubscribers(s3, 1))

\* subscribe (lines 68-71): Set.add, and the function it returns
subscribeMachine(s, cb) ==
    IF InSeq(cb, s.m.subscribers) THEN s
    ELSE [s EXCEPT !.m.subscribers = Append(@, cb)]

unsubscribeMachine(s, cb) ==
    [s EXCEPT !.m.subscribers = SelectSeq(@, LAMBDA c : c # cb)]

\* reset (lines 73-77)
reset(s) ==
    notifySubscribers([s EXCEPT !.m.currentState = s.m.initialState,
                                !.m.context = s.m.initialContext], 1)

\* a call on the machine starts from the machine as it is
MachineStart == [m |-> machine, trace |-> <<>>, ret |-> Null, err |-> NoError]

\* the machine after a call whose outcome is `call`, and the record of the call
MachineCommit(call, op, event) ==
    \E s \in {call} :
        /\ machine' = s.m
        /\ last' = [op |-> op, node |-> 0, arg |-> event, ret |-> s.ret,
                    trace |-> s.trace, err |-> s.err, changed |-> {}]
        /\ UNCHANGED <<nodes, dependencyGraph, currentComputation, written, binding>>

Can ==
    \E event \in Events :
        MachineCommit([MachineStart EXCEPT !.ret = can(machine, event)], "can", event)

Send ==
    \E event \in Events : MachineCommit(send(MachineStart, event), "send", event)

SubscribeMachine ==
    \E cb \in 1..MaxMachineSubs :
        /\ ~InSeq(cb, machine.subscribers)
        /\ MachineCommit(subscribeMachine(MachineStart, cb), "subscribe", "")

UnsubscribeMachine ==
    \E cb \in 1..MaxMachineSubs :
        /\ InSeq(cb, machine.subscribers)
        /\ MachineCommit(unsubscribeMachine(MachineStart, cb), "unsubscribe", "")

Reset == MachineCommit(reset(MachineStart), "reset", "")

\* the machines of the two factories and the caller's machine, whose context is
\* the object {count: c}
Machines ==
    {createLoadingMachine}
    \cup {createToggleMachine(b) : b \in BOOLEAN}
    \cup {createStateMachine("guarded", "idle", <<c>>, 1, o) :
              c \in 0..1, o \in {"none", "log", "throw"}}

MachineInit ==
    /\ machine \in Machines
    /\ nodes = <<>>
    /\ dependencyGraph = EmptyBag
    /\ currentComputation = NoComputation
    /\ written = <<>>
    /\ last = [op |-> "init", node |-> 0, arg |-> "", ret |-> Null, trace |-> <<>>,
               err |-> NoError, changed |-> {}]
    /\ binding = NoBinding

MachineNext ==
    \/ Can
    \/ Send
    \/ SubscribeMachine
    \/ UnsubscribeMachine
    \/ Reset

MachineSpec == MachineInit /\ [][MachineNext]_vars

\* send(event) called now ends without `Cannot send event` and without
\* `Guard failed`
SendAccepts(event) ==
    send(MachineStart, event).err \notin {"Cannot send event", "Guard failed"}

\* C26 as stated: can(event) is true exactly when send(event) would end without
\* the no-transition error and without the guard error, also when several
\* transitions share a source state and an event and differ in their guards.
C26_CanIffSendAccepts ==
    \A event \in Events : can(machine, event) <=> SendAccepts(event)

\* the subscribers called in the last call
MachineNotified == SelectSeq(last.trace, LAMBDA e : e.ev = "notify")

\* C27 as stated: a send that throws, whether because no transition matches, a
\* guard fails, the action throws or onStateChange throws, leaves currentState
\* as it was and calls no subscriber.
C27_FailedSendChangesNothing ==
    [][ (last'.op = "send" /\ last'.err # NoError)
        => /\ machine'.currentState = machine.currentState
           /\ MachineNotified' = <<>> ]_vars

\* the indices of the declared transitions from the current state for an event
Matching(event) ==
    {i \in 1..Len(Transitions(machine.def)) :
        /\ Transitions(machine.def)[i].from = machine.currentState
        /\ Transitions(machine.def)[i].event = event}

\* the first declared of them
FirstMatching(event) ==
    CHOOSE i \in Matching(event) : \A j \in Matching(event) : i <= j

\* the states a machine can be in: its initial state and the targets declared
DeclaredStates ==
    {machine.initialState}
    \cup {Transitions(machine.def)[i].to : i \in 1..Len(Transitions(machine.def))}

\* the calls a successful send of transition t makes, in order, on machine m
\* (the machine after the send): the action, onStateChange, every subscriber
CallsOfSend(t, fromState, m) ==
    (IF t.action = "none" THEN <<>> ELSE << MachineEvent("action", 0, "", m) >>)
    \o (IF m.onStateChange = "none" THEN <<>>
        ELSE << MachineEvent("onStateChange", 0, fromState, m) >>)
    \o [i \in 1..Len(m.subscribers) |-> MachineEvent("notify", m.subscribers[i], "", m)]

\* C28: a send that succeeds takes the first declared transition from the
\* current state for the event: currentState becomes its target, then its action
\* runs, then onStateChange(from, to, context), then every subscriber is called
\* once with the new state; currentState is always the initial state or a
\* declared target, and the loading machine enters `success` and `error` only
\* from `loading`.
C28_SendTakesFirstTransition ==
    [][ /\ (last'.op = "send" /\ last'.err = NoError)
           => /\ Matching(last'.arg) # {}
              /\ LET t == Transitions(machine.def)[FirstMatching(last'.arg)]
                 IN  /\ machine'.currentState = t.to
                     /\ last'.trace = CallsOfSend(t, machine.currentState, machine')
        /\ machine'.currentState \in DeclaredStates
        /\ (/\ machine.def = "loading"
            /\ machine'.currentState \in {"success", "error"}
            /\ machine'.currentState # machine.currentState)
           => machine.currentState = "loading" ]_vars

C28_Witness ==
    /\ machine.def = "guarded" /\ machine.onStateChange = "log"
    /\ Len(machine.subscribers) = 2
    /\ last.op = "send" /\ last.arg = "go" /\ last.err = NoError
    /\ machine.currentState = "busy"
    /\ Len(last.trace) = 3

\* C29 as stated: after reset() currentState is the initial state and context
\* is the initial context as it was at creation, whatever actions have run, and
\* every subscriber has been called once.
C29_ResetRestoresCreation ==
    (last.op = "reset")
    => /\ machine.currentState = machine.initialState
       /\ Context(machine) = machine.created
       /\ Len(MachineNotified) = Len(machine.subscribers)

\* ------------------------------------------------------------ backend binding
\* src/cross-stack/reactive-backend.ts.  `binding` is the closure
\* createReactiveBackendBinding returns: the fields of localState, the entry of
\* the connection's Map under the binding's key (`backend`), and the calls of
\* backendConnection.get and backendConnection.set whose timer has not fired
\* yet (`pending`, in the order the calls were made).  An async function is one
\* action up to its `await` and one action from the firing of the timer to its
\* end: the Map is read or written in the timer's task and the rest of the
\* function runs in the microtasks of that task, before any other timer.
\* `lastSet` is the history of the argument of the last set().
MaxPending == 3
MaxConflicts == 2

\* new Date(0), and new Date() at any moment the program runs
Epoch == 0
Now == 1

\* syncWithBackend up to `await backendConnection.get(key)` (lines 60-65)
syncWithBackend(b) ==
    [b EXCEPT !.isSyncing = TRUE, !.pending = Append(@, [kind |-> "get", value |-> Undefined])]

\* syncWithBackend from the result of get to its end (lines 65-98)
syncWithBackendResume(b, backendValue) ==
    Bind(IF backendValue # Undefined
         THEN IF backendValue # b.value /\ b.lastSync > Epoch
              THEN [b EXCEPT !.conflicts =
                        Append(@, [frontendValue |-> b.value,
                                   backendValue |-> backendValue,
                                   resolved |-> FALSE])]
              ELSE [b EXCEPT !.value = backendValue, !.lastSync = Now,
                             !.isSyncing = FALSE]
         ELSE b,
         LAMBDA b2 : [b2 EXCEPT !.isSyncing = FALSE])

\* the binding's setValue up to `await backendConnection.set(key, value)`
\* (lines 102-108)
bindingSetValue(b, v) ==
    [b EXCEPT !.value = v, !.lastSet = v,
              !.pending = Append(@, [kind |-> "set", value |-> v])]

\* connection.set(key, value) in the timer's task (line 216), then the rest of
\* the binding's setValue (line 109)
bindingSetValueResume(b, v) ==
    [b EXCEPT !.backend = v, !.lastSync = Now]

\* getConflicts (lines 161-163)
getConflicts(b) == SelectSeq(b.conflicts, LAMBDA c : ~c.resolved)

\* createReactiveBackendBinding (lines 43-187): localState, the connection's
\* empty Map, and the initial syncWithBackend() up to its await
createReactiveBackendBinding(initialValue, realtime) ==
    syncWithBackend([key |-> "key", realtime |-> realtime,
                     value |-> initialValue, lastSync |-> Now, isSyncing |-> FALSE,
                     conflicts |-> <<>>, backend |-> Undefined, pending |-> <<>>,
                     lastSet |-> Undefined])

\* The timer of pending call i may fire next: get waits 50 ms and set 100 ms, so
\* calls of one kind fire in the order they were made, and a set fires after
\* every call made before it.
MayFire(b, i) ==
    IF b.pending[i].kind = "set" THEN i = 1
    ELSE \A j \in 1..(i - 1) : b.pending[j].kind # "get"

Without(pending, i) == SubSeq(pending, 1, i - 1) \o SubSeq(pending, i + 1, Len(pending))

BindingCommit(b, op) ==
    /\ binding' = b
    /\ last' = [op |-> op, node |-> 0, arg |-> "", ret |-> Null, trace |-> <<>>,
                err |-> NoError, changed |-> {}]
    /\ UNCHANGED <<nodes, dependencyGraph, currentComputation, written, machine>>

CanStart ==
    /\ Len(binding.pending) < MaxPending
    /\ Len(binding.conflicts) < MaxConflicts

\* binding.set(v)
BindingSet ==
    \E v \in Values : CanStart /\ BindingCommit(bindingSetValue(binding, v), "set")

\* binding.sync()
BindingSync ==
    CanStart /\ BindingCommit(syncWithBackend(binding), "sync")

\* the callback of setInterval (lines 169-173)
SyncInterval ==
    /\ binding.realtime /\ CanStart
    /\ ~binding.isSyncing
    /\ BindingCommit(syncWithBackend(binding), "interval")

\* the timer of a pending get fires: connection.get(key), then the rest of
\* syncWithBackend
GetCompletes ==
    \E i \in 1..Len(binding.pending) :
        /\ binding.pending[i].kind = "get" /\ MayFire(binding, i)
        /\ BindingCommit(syncWithBackendResume(
                             [binding EXCEPT !.pending = Without(@, i)], binding.backend),
                         "get completes")

\* the timer of a pending set fires
SetCompletes ==
    \E i \in 1..Len(binding.pending) :
        /\ binding.pending[i].kind = "set" /\ MayFire(binding, i)
        /\ BindingCommit(bindingSetValueResume(
                             [binding EXCEPT !.pending = Without(@, i)],
                             binding.pending[i].value),
                         "set completes")

BackendInit ==
    /\ binding \in {createReactiveBackendBinding(v, r) : v \in Values, r \in BOOLEAN}
    /\ nodes = <<>>
    /\ dependencyGraph = EmptyBag
    /\ currentComputation = NoComputation
    /\ written = <<>>
    /\ last = [op |-> "init", node |-> 0, arg |-> "", ret |-> Null, trace |-> <<>>,
               err |-> NoError, changed |-> {}]
    /\ machine = NoMachine

BackendNext ==
    \/ BindingSet
    \/ BindingSync
    \/ SyncInterval
    \/ GetCompletes
    \/ SetCompletes

BackendSpec == BackendInit /\ [][BackendNext]_vars

\* C30 as stated: with one writer, a value written by set(v) is never reported
\* as a conflict and never replaced by a sync running at the same time; once
\* every pending operation has completed, get() returns v, the backend holds v,
\* getConflicts() is empty and isSyncing is false.
C30_SingleWriterConverges ==
    binding.lastSet # Undefined
    => /\ getConflicts(binding) = <<>>
       /\ binding.value = binding.lastSet
       /\ binding.pending = <<>>
          => /\ binding.backend = binding.lastSet
             /\ ~binding.isSyncing

====
